---- MODULE Spec2Model ----
(***************************************************************************)
(* Calculator service: the arithmetic operations of app/operations, the   *)
(* request pipeline of main.py (middleware, validation, routes, exception  *)
(* handlers), alone and with two requests side by side, the logging        *)
(* configuration, formatter and StructuredLogger of app/logger_module, and *)
(* the fastapi_server fixture of tests/conftest.py.                        *)
(*                                                                         *)
(* Python numbers are modelled as tagged values.  An int is exact and      *)
(* unbounded in Python; here it ranges over -IntMax..IntMax.  A float is   *)
(* an IEEE double; here it is a scaled-down binary-like format: a finite   *)
(* float is sign * m / Scale with 0 <= m <= FMax (so signed zeros exist),  *)
(* plus +inf, -inf and NaN.  Results are rounded to the nearest            *)
(* representable value, ties to even, and overflow to infinity, as the     *)
(* platform's double arithmetic does.                                      *)
(***************************************************************************)
EXTENDS Integers, Sequences, FiniteSets, TLC

\* ---------------------------------------------------------------- bounds
\* Denominator of the finite floats: the smallest positive float is 1/Scale.
Scale == 2
\* Largest finite float, in units of 1/Scale.
FMax == 6
\* Largest magnitude of an int operand.  IntMax * Scale > FMax, so some ints
\* are too large to convert to a float, as ints beyond 1.8e308 are in Python.
IntMax == 4

\* ------------------------------------------------------- Python numbers
Abs(n) == IF n < 0 THEN -n ELSE n

Sgn(n) == IF n < 0 THEN -1 ELSE 1

None == [t |-> "none", k |-> "fin", s |-> 1, m |-> 0]

IntVal(n) == [t |-> "int", k |-> "fin", s |-> Sgn(n), m |-> Abs(n)]

FloatVal(s, m) == [t |-> "float", k |-> "fin", s |-> s, m |-> m]

Inf(s) == [t |-> "float", k |-> "inf", s |-> s, m |-> 0]

NaN == [t |-> "float", k |-> "nan", s |-> 1, m |-> 0]

Ints == {IntVal(n) : n \in -IntMax..IntMax}

FiniteFloats == {FloatVal(s, m) : s \in {1, -1}, m \in 0..FMax}

Floats == FiniteFloats \cup {Inf(1), Inf(-1), NaN}

Numbers == Ints \cup Floats

\* The signed numerator of a finite value.
Signed(x) == x.s * x.m

\* n / d (n >= 0, d > 0) rounded to the nearest integer, ties to even.
RoundHalfEven(n, d) ==
    LET q == n \div d
        r == n % d
    IN  IF 2 * r < d THEN q
        ELSE IF 2 * r > d THEN q + 1
        ELSE IF q % 2 = 0 THEN q ELSE q + 1

\* A finite magnitude in units of 1/Scale as a float: beyond FMax it is inf.
Finite(s, m) == IF m > FMax THEN Inf(s) ELSE FloatVal(s, m)

\* ------------------------------------------------ outcomes of a call
Return(v) == [exc |-> "none", msg |-> "", val |-> v]

Raise(e, text) == [exc |-> e, msg |-> text, val |-> None]

Raised(o) == o.exc # "none"

\* float(x) for an int x: exact when it fits, OverflowError otherwise.
IntFits(x) == x.m * Scale <= FMax

ToFloat(x) ==
    IF x.t = "float" THEN Return(x)
    ELSE IF IntFits(x) THEN Return(FloatVal(x.s, x.m * Scale))
    ELSE Raise("OverflowError", "int too large to convert to float")

\* -x
PyNeg(x) ==
    IF x.t = "int" THEN IntVal(-Signed(x))
    ELSE IF x.k = "nan" THEN NaN
    ELSE [x EXCEPT !.s = -x.s]

\* float + float
FAdd(x, y) ==
    IF x.k = "nan" \/ y.k = "nan" THEN NaN
    ELSE IF x.k = "inf" /\ y.k = "inf" THEN (IF x.s = y.s THEN x ELSE NaN)
    ELSE IF x.k = "inf" THEN x
    ELSE IF y.k = "inf" THEN y
    ELSE LET v == Signed(x) + Signed(y)
         IN  IF v = 0
             THEN FloatVal(IF x.s = -1 /\ y.s = -1 THEN -1 ELSE 1, 0)
             ELSE Finite(Sgn(v), Abs(v))

\* float * float
FMul(x, y) ==
    IF x.k = "nan" \/ y.k = "nan" THEN NaN
    ELSE IF x.k = "inf" \/ y.k = "inf"
         THEN (IF (x.k = "fin" /\ x.m = 0) \/ (y.k = "fin" /\ y.m = 0)
               THEN NaN ELSE Inf(x.s * y.s))
    ELSE Finite(x.s * y.s, RoundHalfEven(x.m * y.m, Scale))

\* float / float, divisor not zero
FDiv(x, y) ==
    IF x.k = "nan" \/ y.k = "nan" THEN NaN
    ELSE IF x.k = "inf" THEN (IF y.k = "inf" THEN NaN ELSE Inf(x.s * y.s))
    ELSE IF y.k = "inf" THEN FloatVal(x.s * y.s, 0)
    ELSE Finite(x.s * y.s, RoundHalfEven(x.m * Scale, y.m))

IsZero(x) == x.k = "fin" /\ x.m = 0

\* a == b of Python: NaN equals nothing, 0 == 0.0 == -0.0, int against float
\* by value.
PyEq(a, b) ==
    IF a.k = "nan" \/ b.k = "nan" THEN FALSE
    ELSE IF a.k = "inf" \/ b.k = "inf" THEN a.k = b.k /\ a.s = b.s
    ELSE Signed(a) * (IF a.t = "int" THEN Scale ELSE 1)
           = Signed(b) * (IF b.t = "int" THEN Scale ELSE 1)

\* The coercion of mixed operands: the OverflowError of the first operand
\* that does not convert to a float, if any.
Coerce(a, b) ==
    IF Raised(ToFloat(a)) THEN ToFloat(a)
    ELSE IF Raised(ToFloat(b)) THEN ToFloat(b)
    ELSE Return(None)

BothInts(a, b) == a.t = "int" /\ b.t = "int"

FSub(x, y) == FAdd(x, PyNeg(y))

\* a + b, a - b, a * b of Python: exact on two ints, otherwise both operands
\* are converted to float first.
PyAdd(a, b) ==
    IF BothInts(a, b) THEN Return(IntVal(Signed(a) + Signed(b)))
    ELSE IF Raised(Coerce(a, b)) THEN Coerce(a, b)
    ELSE Return(FAdd(ToFloat(a).val, ToFloat(b).val))

PySub(a, b) ==
    IF BothInts(a, b) THEN Return(IntVal(Signed(a) - Signed(b)))
    ELSE IF Raised(Coerce(a, b)) THEN Coerce(a, b)
    ELSE Return(FSub(ToFloat(a).val, ToFloat(b).val))

PyMul(a, b) ==
    IF BothInts(a, b) THEN Return(IntVal(Signed(a) * Signed(b)))
    ELSE IF Raised(Coerce(a, b)) THEN Coerce(a, b)
    ELSE Return(FMul(ToFloat(a).val, ToFloat(b).val))

\* a / b of Python (true division): always a float; two ints are divided
\* exactly and the quotient rounded once.
PyTrueDiv(a, b) ==
    IF BothInts(a, b)
    THEN IF b.m = 0 THEN Raise("ZeroDivisionError", "division by zero")
         ELSE IF RoundHalfEven(a.m * Scale, b.m) > FMax
         THEN Raise("OverflowError",
                    "integer division result too large for a float")
         ELSE Return(FloatVal(a.s * b.s, RoundHalfEven(a.m * Scale, b.m)))
    ELSE IF Raised(Coerce(a, b)) THEN Coerce(a, b)
    ELSE IF IsZero(ToFloat(b).val)
         THEN Raise("ZeroDivisionError", "float division by zero")
    ELSE Return(FDiv(ToFloat(a).val, ToFloat(b).val))

\* ------------------------------------------------ app/operations
DIV_ZERO_MSG == "Cannot divide by zero!"

\* add with its second operand mistyped as the first.
add_dup(a, b) == PyAdd(a, a)

add(a, b) == PyAdd(a, b)

subtract(a, b) == PySub(a, b)

\* multiply that adds.
multiply_plus(a, b) == PyAdd(a, b)

multiply(a, b) == PyMul(a, b)

\* divide without the zero check.
divide_unchecked(a, b) == PyTrueDiv(a, b)

\* divide with floor division on two ints (an int result).
divide_floor(a, b) ==
    IF PyEq(b, IntVal(0)) THEN Raise("ValueError", DIV_ZERO_MSG)
    ELSE IF a.t = "int" /\ b.t = "int"
         THEN Return(IntVal(Signed(a) \div Signed(b)))
    ELSE PyTrueDiv(a, b)

\* divide that also refuses the divisors nearest to zero.
divide_near_zero(a, b) ==
    IF PyEq(b, IntVal(0)) \/ (b.t = "float" /\ b.k = "fin" /\ b.m <= 1)
    THEN Raise("ValueError", DIV_ZERO_MSG)
    ELSE PyTrueDiv(a, b)

divide(a, b) ==
    IF PyEq(b, IntVal(0)) THEN Raise("ValueError", DIV_ZERO_MSG)
    ELSE PyTrueDiv(a, b)

\* ------------------------------------------------ log records
\* One record handed to a logger: the logger's name, the level, the message
\* (numbers of an f-string are kept in args, not rendered) and the extra
\* fields.
NoExtra == [none |-> TRUE]

LogRecord(logger, level, msg, args, extra) ==
    [logger |-> logger, level |-> level, msg |-> msg, args |-> args,
     extra |-> extra]

\* The records the operation functions hand to the app.operations logger.
OpRecord(level, msg, a, b) ==
    LogRecord("app.operations", level, msg, <<a, b>>, NoExtra)

add_log(a, b) ==
    <<OpRecord("DEBUG", "Adding {a} + {b}", a, b),
      IF Raised(add(a, b))
      THEN OpRecord("ERROR", "Addition failed for {a} + {b}: " \o add(a, b).msg, a, b)
      ELSE OpRecord("INFO", "Addition successful: {a} + {b} = {result}", a, b)>>

subtract_log(a, b) ==
    <<OpRecord("DEBUG", "Subtracting {a} - {b}", a, b),
      IF Raised(subtract(a, b))
      THEN OpRecord("ERROR", "Subtraction failed for {a} - {b}: " \o subtract(a, b).msg, a, b)
      ELSE OpRecord("INFO", "Subtraction successful: {a} - {b} = {result}", a, b)>>

multiply_log(a, b) ==
    <<OpRecord("DEBUG", "Multiplying {a} * {b}", a, b),
      IF Raised(multiply(a, b))
      THEN OpRecord("ERROR", "Multiplication failed for {a} * {b}: " \o multiply(a, b).msg, a, b)
      ELSE OpRecord("INFO", "Multiplication successful: {a} * {b} = {result}", a, b)>>

divide_log(a, b) ==
    <<OpRecord("DEBUG", "Dividing {a} / {b}", a, b)>>
    \o (IF divide(a, b).exc = "ValueError"
        THEN <<OpRecord("ERROR", "Division by zero attempted: {a} / {b}", a, b),
               OpRecord("ERROR", "Division by zero error: " \o divide(a, b).msg, a, b)>>
        ELSE IF Raised(divide(a, b))
        THEN <<OpRecord("ERROR", "Division failed for {a} / {b}: " \o divide(a, b).msg, a, b)>>
        ELSE <<OpRecord("INFO", "Division successful: {a} / {b} = {result}", a, b)>>)

\* ------------------------------------------------ StructuredLogger
\* datetime.utcnow().isoformat(): the clock is not modelled.
Timestamp == "utcnow"

\* A dict is a function on its keys; update is dict.update.
EmptyDict == [key \in {} |-> None]

update(mapping, other) ==
    [key \in DOMAIN mapping \cup DOMAIN other |->
        IF key \in DOMAIN other THEN other[key] ELSE mapping[key]]

\* log_operation with  if duration_ms:  in place of  is not None.
StructuredLogger_log_operation_if(logger, operation, a, b, result, duration_ms) ==
    LogRecord(logger, "INFO", "Operation completed: " \o operation, <<>>,
              update([operation |-> operation, operand_a |-> a, operand_b |-> b,
                      result |-> result, timestamp |-> Timestamp],
                     IF duration_ms # None /\ duration_ms.m # 0
                     THEN [duration_ms |-> duration_ms] ELSE EmptyDict))

\* if duration_ms is not None: context["duration_ms"] = duration_ms
StructuredLogger_log_operation(logger, operation, a, b, result, duration_ms) ==
    LogRecord(logger, "INFO", "Operation completed: " \o operation, <<>>,
              update([operation |-> operation, operand_a |-> a, operand_b |-> b,
                      result |-> result, timestamp |-> Timestamp],
                     IF duration_ms # None THEN [duration_ms |-> duration_ms]
                     ELSE EmptyDict))

\* if context: error_context.update(context)
StructuredLogger_log_error(logger, operation, error, context) ==
    LogRecord(logger, "ERROR",
              "Operation failed: " \o operation \o " - " \o error, <<>>,
              update([operation |-> operation, error |-> error,
                      timestamp |-> Timestamp],
                     IF context # None THEN context ELSE EmptyDict))

\* None where a str is expected: user_agent: Optional[str] = None.
NoneStr == "<None>"

\* if user_agent: request_context["user_agent"] = user_agent.  None and the
\* empty string are both falsy.
StructuredLogger_log_request(logger, method, path, client_ip, user_agent) ==
    LogRecord(logger, "INFO", "Request received: " \o method \o " " \o path, <<>>,
              update([method |-> method, path |-> path, client_ip |-> client_ip,
                      timestamp |-> Timestamp],
                     IF user_agent \notin {NoneStr, ""}
                     THEN [user_agent |-> user_agent] ELSE EmptyDict))

\* The application wraps the root logger and passes no duration.
log_operation(operation, a, b, result) ==
    StructuredLogger_log_operation("root", operation, a, b, result, None)

\* The routes pass the context {"operand_a": a, "operand_b": b}.
log_error(operation, error, a, b) ==
    StructuredLogger_log_error("root", operation, error,
                               [operand_a |-> a, operand_b |-> b])

log_request(method, path, client_ip, user_agent) ==
    StructuredLogger_log_request("root", method, path, client_ip, user_agent)

\* ------------------------------------------------ app/logger_module: levels
LevelNames == {"DEBUG", "INFO", "WARNING", "ERROR", "CRITICAL"}

\* Names registered for levels of their own with logging.addLevelName.
CustomLevelNames == {"NOTICE", "RESET"}

\* getattr(logging, name) for the standard names; the custom levels lie
\* between INFO and WARNING.
levelno(levelname) ==
    CASE levelname = "NOTSET" -> 0
      [] levelname = "DEBUG" -> 10
      [] levelname = "INFO" -> 20
      [] levelname = "NOTICE" -> 25
      [] levelname = "RESET" -> 26
      [] levelname = "WARNING" -> 30
      [] levelname = "ERROR" -> 40
      [] levelname = "CRITICAL" -> 50

Loggers ==
    {"root", "uvicorn", "uvicorn.access", "fastapi", "httpx", "app.operations"}

RootLogger == "root"

parent(name) == IF name = "uvicorn.access" THEN "uvicorn" ELSE "root"

\* Logger.getEffectiveLevel: the first level set on the way up to the root.
RECURSIVE getEffectiveLevel(_, _)
getEffectiveLevel(level_of, name) ==
    IF level_of[name] # "NOTSET" \/ name = "root" THEN level_of[name]
    ELSE getEffectiveLevel(level_of, parent(name))

isEnabledFor(level_of, name, levelname) ==
    levelno(levelname) >= levelno(getEffectiveLevel(level_of, name))

\* ------------------------------------------------ ColoredFormatter
COLORS ==
    [DEBUG |-> "\\033[36m", INFO |-> "\\033[32m", WARNING |-> "\\033[33m",
     ERROR |-> "\\033[31m", CRITICAL |-> "\\033[35m", RESET |-> "\\033[0m"]

\* The two format strings of setup_logging, and the one of the formatter test.
Formats == {"console", "file", "short"}

\* logging.Formatter.format: the record rendered by the format string.
Formatter_format(fmt, record) ==
    CASE fmt = "console" ->
           "asctime - " \o record.name \o " - " \o record.levelname \o " - "
             \o record.msg
      [] fmt = "file" ->
           "asctime - " \o record.name \o " - " \o record.levelname
             \o " - funcName:lineno - " \o record.msg
      [] fmt = "short" -> record.levelname \o ": " \o record.msg

\* A formatter that wraps whatever level name it is given.
ColoredFormatter_record_always(record) ==
    [record EXCEPT !.levelname =
        (IF @ \in DOMAIN COLORS THEN COLORS[@] ELSE COLORS["RESET"])
          \o @ \o COLORS["RESET"]]

\* The record as format leaves it: record.levelname is assigned the wrapped name.
ColoredFormatter_record(record) ==
    IF record.levelname \in DOMAIN COLORS
    THEN [record EXCEPT !.levelname =
              COLORS[record.levelname] \o record.levelname \o COLORS["RESET"]]
    ELSE record

ColoredFormatter_format(fmt, record) ==
    Formatter_format(fmt, ColoredFormatter_record(record))

\* ------------------------------------------------ paths and files
\* A path is the sequence of its pieces; every occurrence of ".log" in it is a
\* piece of its own, and so is every "/".
FilePath(parts) == [t |-> "str", parts |-> parts]

LogsAppLog == FilePath(<<"logs", "/", "app", ".log">>)

\* The values of log_file: None, "", "app.log", "logs/app.log", "logs/out.txt"
\* and "run.log/app.log".
LogFiles ==
    {None, FilePath(<<>>), FilePath(<<"app", ".log">>), LogsAppLog,
     FilePath(<<"logs", "/", "out", ".txt">>),
     FilePath(<<"run", ".log", "/", "app", ".log">>)}

\* if log_file:
Truthy(log_file) == log_file # None /\ log_file.parts # <<>>

Slashes(parts) == {i \in DOMAIN parts : parts[i] = "/"}

\* os.path.dirname of a relative path: "" when it has no "/".
dirname(path) ==
    IF Slashes(path.parts) = {} THEN FilePath(<<>>)
    ELSE FilePath(SubSeq(path.parts, 1,
             (CHOOSE i \in Slashes(path.parts) :
                  \A j \in Slashes(path.parts) : j <= i) - 1))

\* log_file.replace('.log', '_error.log') replaces every occurrence.
replace_log(path) ==
    FilePath([i \in DOMAIN path.parts |->
                 IF path.parts[i] = ".log" THEN "_error.log" ELSE path.parts[i]])

\* os.makedirs(path, exist_ok=True): the directory and the ones above it.
makedirs(existing, path) ==
    IF path.parts = <<>>
    THEN Raise("FileNotFoundError", "No such file or directory: ''")
    ELSE Return(existing \cup {path}
                  \cup {FilePath(SubSeq(path.parts, 1, i - 1)) :
                          i \in Slashes(path.parts)})

\* A file can be opened for appending when its directory exists; the working
\* directory, "", always does.
CanOpen(existing, path) ==
    dirname(path).parts = <<>> \/ dirname(path) \in existing

\* ------------------------------------------------ setup_logging
RotatingFileHandler(path, levelname) ==
    [kind |-> "file", target |-> path, level |-> levelname,
     formatter |-> "plain", fmt |-> "file"]

\* The logging state: the loggers' levels, the root logger's handlers, and the
\* directories and files that exist.
Logging(level_of, root_handlers, existing_dirs, existing_files) ==
    [levels |-> level_of, handlers |-> root_handlers, dirs |-> existing_dirs,
     files |-> existing_files]

SetupResult(state, outcome) == [state |-> state, out |-> outcome]

\* A console handler that lets DEBUG through.
console_handler_debug(enable_colors) ==
    [kind |-> "stream", target |-> "stdout", level |-> "DEBUG",
     formatter |-> IF enable_colors THEN "colored" ELSE "plain",
     fmt |-> "console"]

console_handler(enable_colors) ==
    [kind |-> "stream", target |-> "stdout", level |-> "INFO",
     formatter |-> IF enable_colors THEN "colored" ELSE "plain",
     fmt |-> "console"]

\* Levels that leave a level already set on the root logger alone.
SpecificLevels_keeps_level(level_of, log_level) ==
    [name \in Loggers |->
        CASE name = "root" ->
               IF level_of["root"] # "NOTSET" THEN level_of["root"] ELSE log_level
          [] name \in {"uvicorn", "uvicorn.access", "fastapi"} -> "INFO"
          [] name = "httpx" -> "WARNING"
          [] OTHER -> level_of[name]]

\* The levels after setup_logging has run to its end.
SpecificLevels(level_of, log_level) ==
    [name \in Loggers |->
        CASE name = "root" -> log_level
          [] name \in {"uvicorn", "uvicorn.access", "fastapi"} -> "INFO"
          [] name = "httpx" -> "WARNING"
          [] OTHER -> level_of[name]]

\* The function from the first file handler on, the directory being made.
setup_files(state, log_level, log_file, enable_colors, made) ==
    IF ~CanOpen(made, replace_log(log_file))
    THEN SetupResult(
             Logging([state.levels EXCEPT !["root"] = log_level],
                     <<console_handler(enable_colors),
                       RotatingFileHandler(log_file, "DEBUG")>>,
                     made, state.files \cup {log_file}),
             Raise("FileNotFoundError", "No such file or directory"))
    ELSE SetupResult(
             Logging(SpecificLevels(state.levels, log_level),
                     <<console_handler(enable_colors),
                       RotatingFileHandler(log_file, "DEBUG"),
                       RotatingFileHandler(replace_log(log_file), "ERROR")>>,
                     made, state.files \cup {log_file, replace_log(log_file)}),
             Return(RootLogger))

setup_logging(state, log_level, log_file, enable_colors) ==
    IF ~Truthy(log_file)
    THEN SetupResult(
             Logging(SpecificLevels(state.levels, log_level),
                     <<console_handler(enable_colors)>>,
                     state.dirs, state.files),
             Return(RootLogger))
    ELSE IF Raised(makedirs(state.dirs, dirname(log_file)))
    THEN SetupResult(state, makedirs(state.dirs, dirname(log_file)))
    ELSE setup_files(state, log_level, log_file, enable_colors,
                     makedirs(state.dirs, dirname(log_file)).val)

setup_development_logging(state) ==
    setup_logging(state, "DEBUG", LogsAppLog, TRUE)

setup_production_logging(state) ==
    setup_logging(state, "INFO", LogsAppLog, FALSE)

setup_test_logging(state) == setup_logging(state, "WARNING", None, FALSE)

\* Python's logging before anything is configured.
Unconfigured ==
    Logging([name \in Loggers |-> IF name = "root" THEN "WARNING" ELSE "NOTSET"],
            <<>>, {}, {})

\* main.py configures logging when it is imported.
Configured == setup_logging(Unconfigured, "INFO", LogsAppLog, TRUE).state

\* ------------------------------------------------ a logging call
\* The LogRecord a logger makes of a logging call.
makeRecord(rec) ==
    [name |-> rec.logger, levelname |-> rec.level, levelno |-> levelno(rec.level),
     msg |-> rec.msg]

\* Keys of extra that Logger.makeRecord refuses: attributes of every LogRecord.
ReservedKeys ==
    {"message", "asctime", "name", "msg", "args", "levelname", "levelno",
     "module", "filename"}

Handler_format(handler, record) ==
    IF handler.formatter = "colored"
    THEN ColoredFormatter_format(handler.fmt, record)
    ELSE Formatter_format(handler.fmt, record)

\* A handler whose formatter works on a copy of the record.
Handler_record_copy(handler, record) == record

\* The record a handler passes on: the formatter may have changed it.
Handler_record(handler, record) ==
    IF handler.formatter = "colored" THEN ColoredFormatter_record(record)
    ELSE record

\* Logger.callHandlers: each handler whose level admits the record formats it
\* and writes the line, in the order the handlers were added.
RECURSIVE callHandlers(_, _)
callHandlers(root_handlers, record) ==
    IF root_handlers = <<>> THEN <<>>
    ELSE IF record.levelno < levelno(Head(root_handlers).level)
    THEN callHandlers(Tail(root_handlers), record)
    ELSE <<[kind |-> Head(root_handlers).kind,
            target |-> Head(root_handlers).target,
            line |-> Handler_format(Head(root_handlers), record)]>>
         \o callHandlers(Tail(root_handlers),
                         Handler_record(Head(root_handlers), record))

LogResult(outcome, lines) == [out |-> outcome, lines |-> lines]

\* Logger.log: nothing when the logger is not enabled for the level; KeyError
\* when a key of extra is an attribute of the record; else the record goes to
\* the root logger's handlers.
Logger_log(state, rec) ==
    IF ~isEnabledFor(state.levels, rec.logger, rec.level)
    THEN LogResult(Return(None), <<>>)
    ELSE IF DOMAIN rec.extra \cap ReservedKeys # {}
    THEN LogResult(Raise("KeyError", "Attempt to overwrite in LogRecord"), <<>>)
    ELSE LogResult(Return(None), callHandlers(state.handlers, makeRecord(rec)))

\* ------------------------------------------------ requests
Endpoints == {"add", "subtract", "multiply", "divide"}

\* The homepage is served at "/", each operation at "/<name>".
Path(endpoint) == IF endpoint = "home" THEN "/" ELSE "/" \o endpoint

Method(endpoint) == IF endpoint = "home" THEN "GET" ELSE "POST"

\* A field of the JSON body: absent, null, a string that is no number, or a
\* number.  Numbers are the floats and the ints within the float range.
Missing == [j |-> "missing", v |-> None]

JsonNull == [j |-> "null", v |-> None]

JsonText == [j |-> "string", v |-> None]

JsonNum(n) == [j |-> "number", v |-> n]

JsonNumbers == {n \in Ints : IntFits(n)} \cup Floats

RawValues == {Missing, JsonNull, JsonText} \cup {JsonNum(n) : n \in JsonNumbers}

\* request.client.host, or "" when request.client is None.
Clients == {"", "testclient"}

ClientIp(client) == IF client = "" THEN "unknown" ELSE client

\* The user-agent header: not sent, sent empty, or sent with a value.
NoHeader == "<none>"

UserAgentHeaders == {NoHeader, "", "python-httpx"}

UserAgent(header) == IF header = NoHeader THEN "unknown" ELSE header

NoRequest ==
    [endpoint |-> "", a |-> Missing, b |-> Missing, client |-> "", agent |-> ""]

NoOperation == [a |-> None, b |-> None]

NoException == [kind |-> "none", errors |-> <<>>, status_code |-> 0, detail |-> ""]

NoResponse == [status_code |-> 0, keys |-> {}, error |-> "", result |-> None]

\* ------------------------------------------------ OperationRequest
FieldError(field, msg) == [loc |-> <<"body", field>>, msg |-> msg]

\* The custom validator: runs on the value coerced to the declared float type.
validate_numbers(value) ==
    IF value.t \in {"int", "float"} THEN Return(value)
    ELSE Raise("ValueError", "Both a and b must be numbers.")

\* Validation with the validator in mode "before": it sees the raw value.
ValidateField_before(field, raw) ==
    IF raw.j = "missing"
    THEN [ok |-> FALSE, val |-> None, err |-> FieldError(field, "Field required")]
    ELSE IF raw.j # "number"
    THEN [ok |-> FALSE, val |-> None,
          err |-> FieldError(field,
              "Value error, " \o validate_numbers(None).msg)]
    ELSE [ok |-> TRUE, val |-> ToFloat(raw.v).val, err |-> FieldError(field, "")]

\* Validation of one field declared  float = Field(...): the value, or the
\* error reported for it.
ValidateField(field, raw) ==
    IF raw.j = "missing"
    THEN [ok |-> FALSE, val |-> None, err |-> FieldError(field, "Field required")]
    ELSE IF raw.j = "null"
    THEN [ok |-> FALSE, val |-> None,
          err |-> FieldError(field, "Input should be a valid number")]
    ELSE IF raw.j = "string"
    THEN [ok |-> FALSE, val |-> None,
          err |-> FieldError(field,
              "Input should be a valid number, unable to parse string as a number")]
    ELSE IF Raised(validate_numbers(ToFloat(raw.v).val))
    THEN [ok |-> FALSE, val |-> None,
          err |-> FieldError(field,
              "Value error, " \o validate_numbers(ToFloat(raw.v).val).msg)]
    ELSE [ok |-> TRUE, val |-> validate_numbers(ToFloat(raw.v).val).val,
          err |-> FieldError(field, "")]

\* Validation that checks field b only.
ValidationErrors_b_only(req) ==
    IF ValidateField("b", req.b).ok THEN <<>> ELSE <<ValidateField("b", req.b).err>>

\* exc.errors(): the errors of the fields, a before b.
ValidationErrors(req) ==
    (IF ValidateField("a", req.a).ok THEN <<>> ELSE <<ValidateField("a", req.a).err>>)
    \o (IF ValidateField("b", req.b).ok THEN <<>> ELSE <<ValidateField("b", req.b).err>>)

OperationRequest(req) ==
    [a |-> ValidateField("a", req.a).val, b |-> ValidateField("b", req.b).val]

\* ------------------------------------------------ responses
\* OperationResponse with result declared int: an integral float becomes an
\* int, any other float is refused.
OperationResponse_int(result) ==
    IF result.t = "float" /\ result.k = "fin" /\ result.m % Scale = 0
    THEN Return(IntVal(result.s * (result.m \div Scale)))
    ELSE Raise("ValidationError", "Input should be a valid integer")

\* OperationResponse(result=result): result is declared float.
OperationResponse(result) ==
    IF result.t = "float" THEN Return(result)
    ELSE IF result.t = "int" /\ IntFits(result) THEN ToFloat(result)
    ELSE Raise("ValidationError", "Input should be a valid number")

ResultResponse(result) ==
    [status_code |-> 200, keys |-> {"result"}, error |-> "", result |-> result]

\* JSONResponse(status_code=..., content={"error": ...})
ErrorJSONResponse(status_code, error) ==
    [status_code |-> status_code, keys |-> {"error"}, error |-> error,
     result |-> None]

HTTPException(status_code, detail) ==
    [kind |-> "http", errors |-> <<>>, status_code |-> status_code,
     detail |-> detail]

RequestValidationError(errors) ==
    [kind |-> "validation", errors |-> errors, status_code |-> 0, detail |-> ""]

\* The join with the first element of the location in place of the last.
RECURSIVE JoinErrors_first_loc(_)
JoinErrors_first_loc(errors) ==
    IF errors = <<>> THEN ""
    ELSE IF Len(errors) = 1 THEN Head(errors).loc[1] \o ": " \o Head(errors).msg
    ELSE Head(errors).loc[1] \o ": " \o Head(errors).msg \o "; "
           \o JoinErrors_first_loc(Tail(errors))

\* "; ".join(f"{err['loc'][-1]}: {err['msg']}" for err in errors)
RECURSIVE JoinErrors(_)
JoinErrors(errors) ==
    IF errors = <<>> THEN ""
    ELSE LET err == Head(errors)
             entry == err.loc[Len(err.loc)] \o ": " \o err.msg
         IN  IF Len(errors) = 1 THEN entry
             ELSE entry \o "; " \o JoinErrors(Tail(errors))

RootRecord(level, msg, args) == LogRecord("root", level, msg, args, NoExtra)

\* ------------------------------------------------ unexpected failures
VARIABLE
    fault       \* the unexpected failure that strikes the request, if any

\* An unexpected failure: the step of a route's try block at which an
\* exception that the code does not foresee is raised, and its class.
NoFault == [at |-> "none", exc |-> "none"]

Faults ==
    {[at |-> "operation", exc |-> "RuntimeError"],
     [at |-> "log_operation", exc |-> "RuntimeError"],
     [at |-> "response", exc |-> "RuntimeError"],
     [at |-> "response", exc |-> "ValidationError"]}

\* str(e) of the unexpected exception.
FaultText == "unexpected failure"

\* ------------------------------------------------ routes
\* What a route leaves behind: the response it returns or the exception it
\* raises, the operation functions it called and the records it logged.
RouteResult(response, exception, calls, records) ==
    [response |-> response, exception |-> exception, calls |-> calls,
     log |-> records]

CallOf(name, operation) == [fn |-> name, a |-> operation.a, b |-> operation.b]

\* The outcome of the try block of a route: the exception of the operation or
\* of building the response, or the float of the response.
Tried(o) ==
    IF fault.at = "operation" THEN Raise(fault.exc, FaultText)
    ELSE IF Raised(o) THEN o
    ELSE IF fault.at \in {"log_operation", "response"}
         THEN Raise(fault.exc, FaultText)
    ELSE OperationResponse(o.val)

\* The records of the try block: those of the operation, then log_operation
\* when the operation returned.
TriedLog(name, operation, o, records) ==
    IF fault.at = "operation" THEN <<>>
    ELSE records \o (IF Raised(o) \/ fault.at = "log_operation" THEN <<>>
                     ELSE <<log_operation(name, operation.a, operation.b, o.val)>>)

\* An except clause that raises HTTPException without logging the error.
ClientError_unlogged(name, operation, o, requestRecord, records) ==
    RouteResult(NoResponse, HTTPException(400, Tried(o).msg),
                <<CallOf(name, operation)>>,
                <<requestRecord>> \o TriedLog(name, operation, o, records))

\* except Exception as e: log_error(...); raise HTTPException(400, str(e))
ClientError(name, operation, o, requestRecord, records) ==
    RouteResult(NoResponse, HTTPException(400, Tried(o).msg),
                <<CallOf(name, operation)>>,
                <<requestRecord>> \o TriedLog(name, operation, o, records)
                  \o <<log_error(name, Tried(o).msg, operation.a, operation.b)>>)

\* return OperationResponse(result=result)
Success(name, operation, o, requestRecord, records) ==
    RouteResult(ResultResponse(Tried(o).val), NoException,
                <<CallOf(name, operation)>>,
                <<requestRecord>> \o TriedLog(name, operation, o, records))

add_route(operation) ==
    IF Raised(Tried(add(operation.a, operation.b)))
    THEN ClientError("add", operation, add(operation.a, operation.b),
             RootRecord("INFO", "Addition request: {a} + {b}",
                        <<operation.a, operation.b>>),
             add_log(operation.a, operation.b))
    ELSE Success("add", operation, add(operation.a, operation.b),
             RootRecord("INFO", "Addition request: {a} + {b}",
                        <<operation.a, operation.b>>),
             add_log(operation.a, operation.b))

\* subtract_route with the operands exchanged.
subtract_route_swapped(operation) ==
    Success("subtract", operation, subtract(operation.b, operation.a),
        RootRecord("INFO", "Subtraction request: {a} - {b}",
                   <<operation.a, operation.b>>),
        subtract_log(operation.b, operation.a))

subtract_route(operation) ==
    IF Raised(Tried(subtract(operation.a, operation.b)))
    THEN ClientError("subtract", operation, subtract(operation.a, operation.b),
             RootRecord("INFO", "Subtraction request: {a} - {b}",
                        <<operation.a, operation.b>>),
             subtract_log(operation.a, operation.b))
    ELSE Success("subtract", operation, subtract(operation.a, operation.b),
             RootRecord("INFO", "Subtraction request: {a} - {b}",
                        <<operation.a, operation.b>>),
             subtract_log(operation.a, operation.b))

\* multiply_route pasted from add_route with the call left unchanged.
multiply_route_calls_add(operation) ==
    IF Raised(Tried(add(operation.a, operation.b)))
    THEN ClientError("add", operation, add(operation.a, operation.b),
             RootRecord("INFO", "Multiplication request: {a} * {b}",
                        <<operation.a, operation.b>>),
             add_log(operation.a, operation.b))
    ELSE Success("add", operation, add(operation.a, operation.b),
             RootRecord("INFO", "Multiplication request: {a} * {b}",
                        <<operation.a, operation.b>>),
             add_log(operation.a, operation.b))

multiply_route(operation) ==
    IF Raised(Tried(multiply(operation.a, operation.b)))
    THEN ClientError("multiply", operation, multiply(operation.a, operation.b),
             RootRecord("INFO", "Multiplication request: {a} * {b}",
                        <<operation.a, operation.b>>),
             multiply_log(operation.a, operation.b))
    ELSE Success("multiply", operation, multiply(operation.a, operation.b),
             RootRecord("INFO", "Multiplication request: {a} * {b}",
                        <<operation.a, operation.b>>),
             multiply_log(operation.a, operation.b))

\* ValueError and its subclasses (pydantic's ValidationError is one).
IsValueError(o) == o.exc \in {"ValueError", "ValidationError"}

\* except Exception as e: log_error(...); raise HTTPException(500, ...)
ServerError(name, operation, o, requestRecord, records) ==
    RouteResult(NoResponse, HTTPException(500, "Internal Server Error"),
                <<CallOf(name, operation)>>,
                <<requestRecord>> \o TriedLog(name, operation, o, records)
                  \o <<log_error(name, Tried(o).msg, operation.a, operation.b)>>)

\* divide_route without the except ValueError clause.
divide_route_generic(operation) ==
    IF ~Raised(Tried(divide(operation.a, operation.b)))
    THEN Success("divide", operation, divide(operation.a, operation.b),
             RootRecord("INFO", "Division request: {a} / {b}",
                        <<operation.a, operation.b>>),
             divide_log(operation.a, operation.b))
    ELSE ServerError("divide", operation, divide(operation.a, operation.b),
             RootRecord("INFO", "Division request: {a} / {b}",
                        <<operation.a, operation.b>>),
             divide_log(operation.a, operation.b))

divide_route(operation) ==
    IF ~Raised(Tried(divide(operation.a, operation.b)))
    THEN Success("divide", operation, divide(operation.a, operation.b),
             RootRecord("INFO", "Division request: {a} / {b}",
                        <<operation.a, operation.b>>),
             divide_log(operation.a, operation.b))
    ELSE IF IsValueError(Tried(divide(operation.a, operation.b)))
    THEN ClientError("divide", operation, divide(operation.a, operation.b),
             RootRecord("INFO", "Division request: {a} / {b}",
                        <<operation.a, operation.b>>),
             divide_log(operation.a, operation.b))
    ELSE ServerError("divide", operation, divide(operation.a, operation.b),
             RootRecord("INFO", "Division request: {a} / {b}",
                        <<operation.a, operation.b>>),
             divide_log(operation.a, operation.b))

\* ------------------------------------------------ the homepage
\* templates.TemplateResponse("index.html", ...): the rendered page, no JSON.
TemplateResponse == [status_code |-> 200, keys |-> {}, error |-> "", result |-> None]

TemplateFault == [at |-> "template", exc |-> "TemplateNotFound"]

\* read_root: the page, or HTTPException(500) when rendering raises.
read_root ==
    IF fault.at = "template"
    THEN RouteResult(NoResponse, HTTPException(500, "Internal server error"),
                     <<>>,
                     <<RootRecord("ERROR",
                                  "Failed to render homepage: " \o FaultText,
                                  <<>>)>>)
    ELSE RouteResult(TemplateResponse, NoException, <<>>, <<>>)

\* ------------------------------------------------ exception handlers
HandlerResult(response, records) == [response |-> response, log |-> records]

\* The framework's default answer to an HTTPException: the key "detail".
http_exception_handler_default(path, exc) ==
    HandlerResult([status_code |-> exc.status_code, keys |-> {"detail"},
                   error |-> exc.detail, result |-> None],
                  <<>>)

\* A handler that answers every HTTPException with 500.
http_exception_handler_500(path, exc) ==
    HandlerResult(ErrorJSONResponse(500, exc.detail),
        <<RootRecord("ERROR", "HTTPException on " \o path \o ": " \o exc.detail,
                     <<>>)>>)

http_exception_handler(path, exc) ==
    HandlerResult(ErrorJSONResponse(exc.status_code, exc.detail),
        <<RootRecord("ERROR", "HTTPException on " \o path \o ": " \o exc.detail,
                     <<>>)>>)

\* The framework's default answer to a validation error: 422 and "detail".
validation_exception_handler_422(path, exc) ==
    HandlerResult([status_code |-> 422, keys |-> {"detail"},
                   error |-> JoinErrors(exc.errors), result |-> None],
                  <<>>)

validation_exception_handler(path, exc) ==
    HandlerResult(ErrorJSONResponse(400, JoinErrors(exc.errors)),
        <<RootRecord("ERROR",
                     "ValidationError on " \o path \o ": " \o JoinErrors(exc.errors),
                     <<>>)>>)

\* ------------------------------------------------ state
VARIABLES
    fn,         \* the operation function called directly, "" before the call
    arg_a,      \* its first argument
    arg_b,      \* its second argument
    out,        \* its outcome: a returned value or a raised exception
    pc,         \* where the request is on its way through the application
    request,    \* the request: endpoint, raw body fields, client, user agent
    operation,  \* the validated OperationRequest handed to the route
    exception,  \* the exception raised and not yet handled
    response,   \* the response produced for the request
    calls,      \* the calls of operation functions made for the request
    log,        \* the records handed to the loggers, in order
    workers,    \* the requests the application handles side by side
    levels,     \* the level set on each logger, "NOTSET" where none is set
    handlers,   \* the handlers of the root logger, in order
    dirs,       \* the directories that exist
    files,      \* the files that exist
    call,       \* the last call into the logging module and its outcome
    emitted,    \* the logging calls it made on a logger
    written,    \* the lines it wrote to stdout and to the files, in order
    fixture,    \* where the fastapi_server fixture of the tests is
    fastapi_process,  \* the server subprocess the fixture started
    server_up,  \* the fixture's flag: a GET of the root URL returned 200
    elapsed,    \* time.time() - start_time, in seconds
    last_status \* the status of the fixture's last GET, 0 for ConnectionError

opvars == <<fn, arg_a, arg_b, out>>

svcvars == <<pc, request, operation, exception, response, calls, fault>>

logvars == <<levels, handlers, dirs, files, call, emitted, written>>

fixvars == <<fixture, fastapi_process, server_up, elapsed, last_status>>

\* What a single request on its way through the pipeline leaves alone.
restvars == <<opvars, workers, logvars, fixvars>>

\* What the fixture leaves alone.
appvars == <<opvars, svcvars, log, workers, logvars>>

vars == <<fn, arg_a, arg_b, out, pc, request, operation, exception, response,
          calls, log, fault, workers, levels, handlers, dirs, files, call,
          emitted, written, fixture, fastapi_process, server_up, elapsed,
          last_status>>

\* The requests handled side by side.
Workers == {"w1", "w2"}

IdleWorker ==
    [pc |-> "idle", request |-> NoRequest, operation |-> NoOperation,
     exception |-> NoException, response |-> NoResponse, calls |-> <<>>]

NoCall == [fn |-> "", args |-> EmptyDict, out |-> Return(None), was |-> "NOTSET"]

\* The fixture has not been asked for.
NotStarted ==
    /\ fixture = "setup"
    /\ fastapi_process = "none"
    /\ server_up = FALSE
    /\ elapsed = 0
    /\ last_status = 0

InitPipeline ==
    /\ pc = "idle"
    /\ request = NoRequest
    /\ operation = NoOperation
    /\ exception = NoException
    /\ response = NoResponse
    /\ calls = <<>>
    /\ log = <<>>
    /\ fault = NoFault
    /\ workers = [w \in Workers |-> IdleWorker]
    /\ NotStarted

\* The logging state is state.
Installed(state) ==
    /\ levels = state.levels
    /\ handlers = state.handlers
    /\ dirs = state.dirs
    /\ files = state.files

\* No call into the logging module has been made.
Quiet ==
    /\ call = NoCall
    /\ emitted = <<>>
    /\ written = <<>>

InitService ==
    /\ InitPipeline
    /\ Installed(Configured)
    /\ Quiet

\* ------------------------------------------------ direct calls
InitOps ==
    /\ fn = ""
    /\ arg_a \in Numbers
    /\ arg_b \in Numbers
    /\ out = Return(None)
    /\ InitService

Call(name, o, records) ==
    /\ fn = ""
    /\ fn' = name
    /\ out' = o
    /\ log' = log \o records
    /\ UNCHANGED <<arg_a, arg_b>>
    /\ UNCHANGED svcvars
    /\ UNCHANGED <<workers, logvars, fixvars>>

CallAdd == Call("add", add(arg_a, arg_b), add_log(arg_a, arg_b))

CallSubtract ==
    Call("subtract", subtract(arg_a, arg_b), subtract_log(arg_a, arg_b))

CallMultiply ==
    Call("multiply", multiply(arg_a, arg_b), multiply_log(arg_a, arg_b))

CallDivide == Call("divide", divide(arg_a, arg_b), divide_log(arg_a, arg_b))

NextOps == CallAdd \/ CallSubtract \/ CallMultiply \/ CallDivide

SpecOps == InitOps /\ [][NextOps]_vars

\* ------------------------------------------------ the request pipeline
Init ==
    /\ fn = ""
    /\ arg_a = None
    /\ arg_b = None
    /\ out = Return(None)
    /\ InitService

\* log_requests, up to call_next: a POST arrives and is logged.  The failure
\* that will strike it, if any, is drawn from faults.
Arrive(faults) ==
    /\ pc = "idle"
    /\ \E endpoint \in Endpoints, a \in RawValues, b \in RawValues,
          client \in Clients, agent \in UserAgentHeaders :
         /\ request' = [endpoint |-> endpoint, a |-> a, b |-> b,
                        client |-> client, agent |-> agent]
         /\ log' = Append(log, log_request("POST", Path(endpoint),
                                           ClientIp(client), UserAgent(agent)))
    /\ fault' \in faults
    /\ pc' = "validate"
    /\ UNCHANGED <<operation, exception, response, calls>>
    /\ UNCHANGED restvars

Receive == Arrive({NoFault})

ReceiveFaulty == Arrive(Faults)

\* The body is validated against OperationRequest before the route runs.
Validate ==
    /\ pc = "validate"
    /\ IF ValidationErrors(request) = <<>>
       THEN /\ operation' = OperationRequest(request)
            /\ pc' = "route"
            /\ UNCHANGED exception
       ELSE /\ exception' = RequestValidationError(ValidationErrors(request))
            /\ pc' = "handle"
            /\ UNCHANGED operation
    /\ UNCHANGED <<request, response, calls, log, fault>>
    /\ UNCHANGED restvars

\* A route runs: it returns a response or raises an HTTPException.
Dispatch(endpoint, r) ==
    /\ pc = "route"
    /\ request.endpoint = endpoint
    /\ calls' = calls \o r.calls
    /\ log' = log \o r.log
    /\ IF r.exception = NoException
       THEN /\ response' = r.response
            /\ pc' = "respond"
            /\ UNCHANGED exception
       ELSE /\ exception' = r.exception
            /\ pc' = "handle"
            /\ UNCHANGED response
    /\ UNCHANGED <<request, operation, fault>>
    /\ UNCHANGED restvars

AddRoute == Dispatch("add", add_route(operation))

SubtractRoute == Dispatch("subtract", subtract_route(operation))

MultiplyRoute == Dispatch("multiply", multiply_route(operation))

DivideRoute == Dispatch("divide", divide_route(operation))

Handle(kind, r) ==
    /\ pc = "handle"
    /\ exception.kind = kind
    /\ response' = r.response
    /\ log' = log \o r.log
    /\ exception' = NoException
    /\ pc' = "respond"
    /\ UNCHANGED <<request, operation, calls, fault>>
    /\ UNCHANGED restvars

HandleHTTPException ==
    Handle("http", http_exception_handler(Path(request.endpoint), exception))

HandleValidationError ==
    Handle("validation",
           validation_exception_handler(Path(request.endpoint), exception))

\* A middleware that returns the response without the closing record.
Complete_silent ==
    /\ pc = "respond"
    /\ pc' = "done"
    /\ UNCHANGED <<request, operation, exception, response, calls, fault, log>>
    /\ UNCHANGED restvars

\* log_requests, after call_next: the response is logged and returned as is.
Complete ==
    /\ pc = "respond"
    /\ log' = Append(log,
                RootRecord("INFO",
                    "Request completed: " \o Method(request.endpoint) \o " "
                      \o Path(request.endpoint)
                      \o " - Status: {status_code} - Time: {process_time}ms",
                    <<response.status_code>>))
    /\ pc' = "done"
    /\ UNCHANGED <<request, operation, exception, response, calls, fault>>
    /\ UNCHANGED restvars

Next ==
    \/ Receive
    \/ Validate
    \/ AddRoute
    \/ SubtractRoute
    \/ MultiplyRoute
    \/ DivideRoute
    \/ HandleHTTPException
    \/ HandleValidationError
    \/ Complete

Spec == Init /\ [][Next]_vars

\* The pipeline with requests that an unexpected failure strikes.
NextFaulty == Next \/ ReceiveFaulty

SpecFaulty == Init /\ [][NextFaulty]_vars

\* ------------------------------------------------ the whole site
\* log_requests, up to call_next, for a GET of the homepage: it has no body to
\* validate.  Rendering the template may fail.
ReceiveHome ==
    /\ pc = "idle"
    /\ \E client \in Clients, agent \in UserAgentHeaders :
         /\ request' = [endpoint |-> "home", a |-> Missing, b |-> Missing,
                        client |-> client, agent |-> agent]
         /\ log' = Append(log, log_request("GET", Path("home"),
                                           ClientIp(client), UserAgent(agent)))
    /\ fault' \in {NoFault, TemplateFault}
    /\ pc' = "route"
    /\ UNCHANGED <<operation, exception, response, calls>>
    /\ UNCHANGED restvars

ReadRoot == Dispatch("home", read_root)

NextSite == NextFaulty \/ ReceiveHome \/ ReadRoot

SpecSite == Init /\ [][NextSite]_vars

\* ------------------------------------------------ requests side by side
\* The route the framework dispatches the path of an endpoint to.
Route(endpoint, validated) ==
    CASE endpoint = "add" -> add_route(validated)
      [] endpoint = "subtract" -> subtract_route(validated)
      [] endpoint = "multiply" -> multiply_route(validated)
      [] endpoint = "divide" -> divide_route(validated)

\* The body fields the requests side by side are drawn from: not a number,
\* zero, and a number other than zero.
ConcurrentValues == {JsonText, JsonNum(IntVal(0)), JsonNum(IntVal(1))}

\* A route that finds its operands in a place all requests share.
RouteInput_shared(w) ==
    IF \E v \in Workers \ {w} : workers[v].operation # NoOperation
    THEN workers[CHOOSE v \in Workers \ {w} :
                     workers[v].operation # NoOperation].operation
    ELSE workers[w].operation

\* The OperationRequest a route is called with: the one made of the body of
\* its own request.
RouteInput(w) == workers[w].operation

WorkerStep(w, after, records) ==
    /\ workers' = [workers EXCEPT ![w] = after]
    /\ log' = log \o records
    /\ UNCHANGED <<pc, request, operation, exception, response, calls, fault>>
    /\ UNCHANGED <<opvars, logvars, fixvars>>

WorkerReceive(w) ==
    /\ workers[w].pc = "idle"
    /\ \E endpoint \in Endpoints, a \in ConcurrentValues, b \in ConcurrentValues :
         WorkerStep(w,
             [workers[w] EXCEPT
                 !.pc = "validate",
                 !.request = [endpoint |-> endpoint, a |-> a, b |-> b,
                              client |-> "testclient", agent |-> "python-httpx"]],
             <<log_request("POST", Path(endpoint), ClientIp("testclient"),
                           UserAgent("python-httpx"))>>)

WorkerValidate(w) ==
    /\ workers[w].pc = "validate"
    /\ WorkerStep(w,
           IF ValidationErrors(workers[w].request) = <<>>
           THEN [workers[w] EXCEPT
                    !.pc = "route",
                    !.operation = OperationRequest(workers[w].request)]
           ELSE [workers[w] EXCEPT
                    !.pc = "handle",
                    !.exception = RequestValidationError(
                                      ValidationErrors(workers[w].request))],
           <<>>)

WorkerRoute(w) ==
    /\ workers[w].pc = "route"
    /\ \E r \in {Route(workers[w].request.endpoint, RouteInput(w))} :
         WorkerStep(w,
             IF r.exception = NoException
             THEN [workers[w] EXCEPT !.pc = "respond", !.response = r.response,
                                     !.calls = @ \o r.calls]
             ELSE [workers[w] EXCEPT !.pc = "handle", !.exception = r.exception,
                                     !.calls = @ \o r.calls],
             r.log)

WorkerHandle(w) ==
    /\ workers[w].pc = "handle"
    /\ \E r \in {IF workers[w].exception.kind = "http"
                  THEN http_exception_handler(Path(workers[w].request.endpoint),
                                              workers[w].exception)
                  ELSE validation_exception_handler(
                           Path(workers[w].request.endpoint),
                           workers[w].exception)} :
         WorkerStep(w,
             [workers[w] EXCEPT !.pc = "respond", !.response = r.response,
                                !.exception = NoException],
             r.log)

WorkerComplete(w) ==
    /\ workers[w].pc = "respond"
    /\ WorkerStep(w, [workers[w] EXCEPT !.pc = "done"],
           <<RootRecord("INFO",
                 "Request completed: POST " \o Path(workers[w].request.endpoint)
                   \o " - Status: {status_code} - Time: {process_time}ms",
                 <<workers[w].response.status_code>>)>>)

NextConcurrent ==
    \E w \in Workers :
        \/ WorkerReceive(w)
        \/ WorkerValidate(w)
        \/ WorkerRoute(w)
        \/ WorkerHandle(w)
        \/ WorkerComplete(w)

SpecConcurrent == Init /\ [][NextConcurrent]_vars

\* ------------------------------------------------ the logging module in use
\* The logging state as a value.
Sys == Logging(levels, handlers, dirs, files)

InitLogging ==
    /\ fn = ""
    /\ arg_a = None
    /\ arg_b = None
    /\ out = Return(None)
    /\ InitPipeline
    /\ Quiet
    /\ \E levelname \in LevelNames :
         Installed(Logging([Unconfigured.levels EXCEPT !["root"] = levelname],
                           <<>>, {}, {}))

\* A call that configures logging: r is what it leaves and returns.
Setup(name, args, r) ==
    /\ levels' = r.state.levels
    /\ handlers' = r.state.handlers
    /\ dirs' = r.state.dirs
    /\ files' = r.state.files
    /\ call' = [fn |-> name, args |-> args, out |-> r.out, was |-> levels["root"]]
    /\ emitted' = <<>>
    /\ written' = <<>>
    /\ UNCHANGED <<opvars, svcvars, log, workers, fixvars>>

SetupLogging ==
    \E log_level \in LevelNames, log_file \in LogFiles, enable_colors \in BOOLEAN :
        Setup("setup_logging",
              [log_level |-> log_level, log_file |-> log_file,
               enable_colors |-> enable_colors],
              setup_logging(Sys, log_level, log_file, enable_colors))

SetupDevelopmentLogging ==
    Setup("setup_development_logging", EmptyDict, setup_development_logging(Sys))

SetupProductionLogging ==
    Setup("setup_production_logging", EmptyDict, setup_production_logging(Sys))

SetupTestLogging ==
    Setup("setup_test_logging", EmptyDict, setup_test_logging(Sys))

\* A call that logs: rec is what it hands to the logger, r what the logger does.
Logs(name, args, rec, r) ==
    /\ call' = [fn |-> name, args |-> args, out |-> r.out, was |-> levels["root"]]
    /\ emitted' = <<rec>>
    /\ written' = r.lines
    /\ UNCHANGED <<levels, handlers, dirs, files>>
    /\ UNCHANGED <<opvars, svcvars, log, workers, fixvars>>

\* logger.log(level, "message") on any logger, at any level.
LoggerLog ==
    \E name \in Loggers, levelname \in LevelNames \cup CustomLevelNames :
        Logs("Logger.log", [name |-> name, level |-> levelname],
             LogRecord(name, levelname, "message", <<>>, NoExtra),
             Logger_log(Sys, LogRecord(name, levelname, "message", <<>>, NoExtra)))

\* ColoredFormatter(fmt).format(record) on a record made by hand, fresh or as
\* an earlier ColoredFormatter.format call (with format string before) left it.
Format ==
    \E fmt \in Formats, levelname \in LevelNames \cup CustomLevelNames,
       before \in {"none", "console"} :
        LET fresh == makeRecord(LogRecord("test", levelname, "message", <<>>,
                                          NoExtra))
            record == IF before = "none" THEN fresh
                      ELSE ColoredFormatter_record(fresh)
        IN  /\ call' = [fn |-> "ColoredFormatter.format",
                        args |-> [fmt |-> fmt, record |-> record,
                                  levelname |-> levelname, before |-> before],
                        out |-> Return(ColoredFormatter_format(fmt, record)),
                        was |-> levels["root"]]
            /\ emitted' = <<>>
            /\ written' = <<>>
            /\ UNCHANGED <<levels, handlers, dirs, files>>
            /\ UNCHANGED <<opvars, svcvars, log, workers, fixvars>>

Contexts ==
    {None, EmptyDict, [operand_a |-> IntVal(1), operand_b |-> IntVal(0)],
     [operation |-> "context"], [message |-> "context"],
     [error |-> "context", timestamp |-> "context"]}

LogOperation ==
    \E name \in {"root", "app.operations"}, duration_ms \in {None, IntVal(0), FloatVal(1, 1)} :
        Logs("log_operation", [logger |-> name, duration_ms |-> duration_ms],
             StructuredLogger_log_operation(name, "add", IntVal(1), IntVal(1),
                                            IntVal(2), duration_ms),
             Logger_log(Sys,
                 StructuredLogger_log_operation(name, "add", IntVal(1), IntVal(1),
                                                IntVal(2), duration_ms)))

LogError ==
    \E name \in {"root", "app.operations"}, context \in Contexts :
        Logs("log_error", [logger |-> name, context |-> context],
             StructuredLogger_log_error(name, "divide", DIV_ZERO_MSG, context),
             Logger_log(Sys,
                 StructuredLogger_log_error(name, "divide", DIV_ZERO_MSG, context)))

LogRequest ==
    \E name \in {"root", "app.operations"}, user_agent \in {NoneStr, "", "pytest"} :
        Logs("log_request", [logger |-> name, user_agent |-> user_agent],
             StructuredLogger_log_request(name, "GET", "/calc", "127.0.0.1",
                                          user_agent),
             Logger_log(Sys,
                 StructuredLogger_log_request(name, "GET", "/calc", "127.0.0.1",
                                              user_agent)))

NextLogging ==
    \/ SetupLogging
    \/ SetupDevelopmentLogging
    \/ SetupProductionLogging
    \/ SetupTestLogging
    \/ LoggerLog
    \/ Format
    \/ LogOperation
    \/ LogError
    \/ LogRequest

SpecLogging == InitLogging /\ [][NextLogging]_vars

\* ------------------------------------------------ the fastapi_server fixture
\* timeout = 30  # seconds
timeout == 30

\* What a GET of the root URL gets from the subprocess: 200 from a server that
\* serves, 500 from one whose homepage fails, ConnectionError (0) from none.
Answer(process) ==
    CASE process = "serving" -> 200
      [] process = "failing" -> 500
      [] OTHER -> 0

\* fastapi_process = subprocess.Popen(['python', 'main.py']); the clock starts.
Popen ==
    /\ fixture = "setup"
    /\ fastapi_process' = "starting"
    /\ elapsed' = 0
    /\ server_up' = FALSE
    /\ fixture' = "while"
    /\ UNCHANGED last_status
    /\ UNCHANGED appvars

\* while time.time() - start_time < timeout:
PollTest ==
    /\ fixture = "while"
    /\ fixture' = IF elapsed < timeout THEN "get" ELSE "if"
    /\ UNCHANGED <<fastapi_process, server_up, elapsed, last_status>>
    /\ UNCHANGED appvars

\* A fixture that takes any answer of the server for a sign of life.
Get_any_answer ==
    /\ fixture = "get"
    /\ last_status' = Answer(fastapi_process)
    /\ \E took \in {0, 1} : elapsed' = elapsed + took
    /\ IF last_status' # 0
       THEN server_up' = TRUE /\ fixture' = "if"
       ELSE server_up' = server_up /\ fixture' = "sleep"
    /\ UNCHANGED fastapi_process
    /\ UNCHANGED appvars

\* response = requests.get(server_url): on 200 the flag is set and the loop
\* left; any other status and ConnectionError lead to the sleep.  The request
\* takes under a second, or about one.
Get ==
    /\ fixture = "get"
    /\ last_status' = Answer(fastapi_process)
    /\ \E took \in {0, 1} : elapsed' = elapsed + took
    /\ IF last_status' = 200
       THEN server_up' = TRUE /\ fixture' = "if"
       ELSE server_up' = server_up /\ fixture' = "sleep"
    /\ UNCHANGED fastapi_process
    /\ UNCHANGED appvars

\* time.sleep(1)
Sleep ==
    /\ fixture = "sleep"
    /\ elapsed' = elapsed + 1
    /\ fixture' = "while"
    /\ UNCHANGED <<fastapi_process, server_up, last_status>>
    /\ UNCHANGED appvars

\* Popen.terminate(): a signal to a process that runs, nothing to one that
\* has ended.
terminate(process) ==
    IF process \in {"starting", "serving", "failing"} THEN "terminated"
    ELSE process

\* if not server_up: terminate and raise RuntimeError; else yield.
CheckServerUp ==
    /\ fixture = "if"
    /\ IF ~server_up
       THEN /\ fastapi_process' = terminate(fastapi_process)
            /\ fixture' = "raised"
       ELSE /\ fixture' = "yielded"
            /\ UNCHANGED fastapi_process
    /\ UNCHANGED <<server_up, elapsed, last_status>>
    /\ UNCHANGED appvars

\* After the yield, when the session ends: fastapi_process.terminate()
Terminate ==
    /\ fixture = "yielded"
    /\ fastapi_process' = terminate(fastapi_process)
    /\ fixture' = "wait"
    /\ UNCHANGED <<server_up, elapsed, last_status>>
    /\ UNCHANGED appvars

\* fastapi_process.wait()
Wait ==
    /\ fixture = "wait"
    /\ fastapi_process' = "reaped"
    /\ fixture' = "finished"
    /\ UNCHANGED <<server_up, elapsed, last_status>>
    /\ UNCHANGED appvars

\* The subprocess on its own: python main.py comes to serve, or serves with a
\* homepage that fails, or ends (the port is taken, the program crashes).
ServerRuns ==
    /\ fastapi_process = "starting"
    /\ fastapi_process' \in {"serving", "failing"}
    /\ UNCHANGED <<fixture, server_up, elapsed, last_status>>
    /\ UNCHANGED appvars

ServerExits ==
    /\ fastapi_process \in {"starting", "serving", "failing"}
    /\ fastapi_process' = "exited"
    /\ UNCHANGED <<fixture, server_up, elapsed, last_status>>
    /\ UNCHANGED appvars

\* The steps of the fixture itself.
FixtureStep ==
    \/ Popen
    \/ PollTest
    \/ Get
    \/ Sleep
    \/ CheckServerUp
    \/ Terminate
    \/ Wait

NextFixture == FixtureStep \/ ServerRuns \/ ServerExits

\* The fixture is code that runs: whenever it has a next statement it executes
\* it, and pytest resumes it after the yield when the session ends.  Nothing
\* makes the subprocess come up.
SpecFixture == Init /\ [][NextFixture]_vars /\ WF_vars(FixtureStep)

\* ------------------------------------------------ properties of the operations
Zeros == {IntVal(0), FloatVal(1, 0), FloatVal(-1, 0)}

Returned(name) == fn = name

\* C1: for every dividend a and every divisor b that is 0, 0.0 or -0.0,
\* divide(a, b) raises ValueError with the message "Cannot divide by zero!"
\* and returns no value.
C1_DivideByZeroRaises ==
    (Returned("divide") /\ arg_b \in Zeros)
        => /\ out.exc = "ValueError"
           /\ out.msg = "Cannot divide by zero!"
           /\ out.val = None

C1_Witness ==
    /\ Returned("divide")
    /\ arg_a = IntVal(IntMax)
    /\ arg_b = FloatVal(-1, 0)
    /\ out.exc = "ValueError"

\* Whether a / b can be carried out in floats: two ints need a quotient within
\* the float range, otherwise every int operand must convert to a float.
QuotientFits(a, b) ==
    IF a.t = "int" /\ b.t = "int"
    THEN RoundHalfEven(a.m * Scale, b.m) <= FMax
    ELSE (a.t = "int" => IntFits(a)) /\ (b.t = "int" => IntFits(b))

\* C2 as stated: for every a and every b != 0, divide(a, b) never raises and
\* returns the quotient a / b as a float.
C2_DivideTotalOffZero ==
    (Returned("divide") /\ arg_b \notin Zeros)
        => /\ ~Raised(out)
           /\ out.val.t = "float"
           /\ out = PyTrueDiv(arg_a, arg_b)

\* C2 amended: for every a and every b != 0, however close to zero,
\* divide(a, b) returns the quotient a / b as a float (4 / 2 is 2.0) and does
\* not raise, unless one operand is a float and the other an int too large to
\* convert to a float, or both are ints and their quotient is too large for a
\* float: then it raises OverflowError.
C2_DivideQuotient ==
    (Returned("divide") /\ arg_b \notin Zeros)
        => /\ QuotientFits(arg_a, arg_b)
                => /\ ~Raised(out)
                   /\ out.val.t = "float"
                   /\ out = PyTrueDiv(arg_a, arg_b)
           /\ ~QuotientFits(arg_a, arg_b) => out.exc = "OverflowError"
           /\ (arg_a = IntVal(4) /\ arg_b = IntVal(2))
                => out.val = FloatVal(1, 2 * Scale)

C2_Witness ==
    /\ Returned("divide")
    /\ arg_a = IntVal(4)
    /\ arg_b = IntVal(2)
    /\ out.val = FloatVal(1, 2 * Scale)

\* Whether a and b can be combined by +, - or *: two ints always, otherwise
\* every int operand must convert to a float.
Combines(a, b) ==
    \/ a.t = "int" /\ b.t = "int"
    \/ (a.t = "int" => IntFits(a)) /\ (b.t = "int" => IntFits(b))

Arith(name, a, b) ==
    CASE name = "add" -> PyAdd(a, b)
      [] name = "subtract" -> PySub(a, b)
      [] name = "multiply" -> PyMul(a, b)

ArithNames == {"add", "subtract", "multiply"}

\* C3 as stated: add, subtract and multiply return a + b, a - b and a * b and
\* never raise, for every pair of numbers.
C3_ArithTotal ==
    fn \in ArithNames
        => ~Raised(out) /\ out = Arith(fn, arg_a, arg_b)

\* C3 amended: add, subtract and multiply return a + b, a - b and a * b and do
\* not raise (zero, negative and large operands included: float overflow
\* yields infinity), unless one operand is a float and the other an int too
\* large to convert to a float: then they raise OverflowError.
C3_ArithResult ==
    fn \in ArithNames
        => /\ Combines(arg_a, arg_b)
                => ~Raised(out) /\ out = Arith(fn, arg_a, arg_b)
           /\ ~Combines(arg_a, arg_b) => out.exc = "OverflowError"

C3_Witness ==
    /\ Returned("multiply")
    /\ arg_a = FloatVal(-1, FMax)
    /\ arg_b = FloatVal(1, FMax)
    /\ out = Return(Inf(-1))

\* The outcome of the same call with the operands exchanged.
Swapped ==
    CASE fn = "add" -> add(arg_b, arg_a)
      [] fn = "subtract" -> subtract(arg_b, arg_a)
      [] fn = "multiply" -> multiply(arg_b, arg_a)

\* The relation C4 states between a call and the call with operands exchanged.
Symmetric(o, sw) ==
    /\ ~Raised(o)
    /\ ~Raised(sw)
    /\ PyEq(o.val, IF fn = "subtract" THEN PyNeg(sw.val) ELSE sw.val)

\* C4 as stated: add(a, b) == add(b, a), multiply(a, b) == multiply(b, a) and
\* subtract(a, b) == -subtract(b, a) for every pair of numbers.
C4_SymmetricAlways ==
    fn \in ArithNames => Symmetric(out, Swapped)

\* C4 amended: the three identities hold for every pair of numbers for which
\* the operation returns a value that is not NaN.
C4_SymmetricOffNaN ==
    (fn \in ArithNames /\ ~Raised(out) /\ out.val # NaN)
        => Symmetric(out, Swapped)

C4_Witness ==
    /\ Returned("subtract")
    /\ arg_a = FloatVal(1, 1)
    /\ arg_b = IntVal(1)
    /\ out = Return(FloatVal(-1, Scale - 1))

\* ------------------------------------------------ properties of the service
\* The request has been answered: its response is set.
Answered == pc \in {"respond", "done"}

Numeric(raw) == raw.j = "number"

ValidOperands == Numeric(request.a) /\ Numeric(request.b)

\* The operands as the route receives them: the body's numbers as floats.
OperandA == ToFloat(request.a.v).val

OperandB == ToFloat(request.b.v).val

\* C5: a POST to /divide with numeric a and b equal to zero (0, 0.0, -0.0) is
\* answered with status 400 and the body {"error": "Cannot divide by zero!"}.
C5_DivideByZeroIs400 ==
    (/\ Answered
     /\ request.endpoint = "divide"
     /\ Numeric(request.a)
     /\ request.b \in {JsonNum(z) : z \in Zeros})
        => /\ response.status_code = 400
           /\ response.keys = {"error"}
           /\ response.error = "Cannot divide by zero!"

C5_Witness ==
    /\ pc = "done"
    /\ request.endpoint = "divide"
    /\ request.a = JsonNum(Inf(1))
    /\ request.b = JsonNum(FloatVal(-1, 0))
    /\ response.status_code = 400

\* a + b, a - b, a * b, a / b for the endpoint.
Expected(endpoint, a, b) ==
    CASE endpoint = "add" -> PyAdd(a, b)
      [] endpoint = "subtract" -> PySub(a, b)
      [] endpoint = "multiply" -> PyMul(a, b)
      [] endpoint = "divide" -> PyTrueDiv(a, b)

\* C6: a response with status 200 has the body {"result": r} where r is
\* a + b, a - b, a * b or a / b, by the endpoint, on the request's operands in
\* the order (a, b).
C6_ResultOfOwnOperation ==
    (Answered /\ response.status_code = 200)
        => /\ ValidOperands
           /\ response.keys = {"result"}
           /\ Return(response.result)
                = Expected(request.endpoint, OperandA, OperandB)

C6_Witness ==
    /\ pc = "done"
    /\ request.endpoint = "subtract"
    /\ request.a = JsonNum(FloatVal(1, 1))
    /\ request.b = JsonNum(IntVal(1))
    /\ response.status_code = 200
    /\ response.result = FloatVal(-1, Scale - 1)

\* C7: for operands that passed validation, /add, /subtract and /multiply
\* never answer with an error, and /divide does only when b == 0.
C7_OnlyDivideFails ==
    (ValidOperands /\ (pc = "handle" \/ (Answered /\ response.keys # {"result"})))
        => /\ request.endpoint = "divide"
           /\ request.b \in {JsonNum(z) : z \in Zeros}

C7_Witness ==
    /\ pc = "done"
    /\ request.endpoint = "multiply"
    /\ request.a = JsonNum(Inf(-1))
    /\ request.b = JsonNum(FloatVal(1, 0))
    /\ response = ResultResponse(NaN)

\* The response is the validation handler's: its record is in the log.
ValidationFailure ==
    \E i \in 1..Len(log) :
        log[i].msg = "ValidationError on " \o Path(request.endpoint) \o ": "
                       \o response.error

\* A record of an operation function or of a failed operation is in the log.
OperationLogged ==
    \E i \in 1..Len(log) :
        \/ log[i].logger = "app.operations"
        \/ log[i].extra # NoExtra /\ log[i].level = "ERROR"

\* C8: a request whose a or b is missing or not a number is rejected before
\* any operation function is called; its answer is the validation failure,
\* never an operation failure such as "Cannot divide by zero!".
C8_RejectedBeforeOperation ==
    (~ValidOperands /\ pc \notin {"idle", "validate"})
        => /\ calls = <<>>
           /\ operation = NoOperation
           /\ ~OperationLogged
           /\ pc = "handle" => exception.kind = "validation"
           /\ Answered => ValidationFailure /\ response.error # DIV_ZERO_MSG

C8_Witness ==
    /\ pc = "done"
    /\ request.endpoint = "divide"
    /\ request.a = JsonText
    /\ request.b = JsonNum(IntVal(0))
    /\ ValidationFailure

\* C9: every validation failure, on any endpoint, is answered with status 400
\* and a body whose only key is "error", holding a string.
C9_ValidationIs400 ==
    (~ValidOperands /\ Answered)
        => /\ response.status_code = 400
           /\ response.keys = {"error"}
           /\ response.error \in STRING
           /\ response.error # ""

C9_Witness ==
    /\ pc = "done"
    /\ request.endpoint = "add"
    /\ request.a = Missing
    /\ request.b = JsonNull
    /\ response.status_code = 400

\* The problem reported for a raw field that is no number.
Problem(raw) ==
    CASE raw.j = "missing" -> "Field required"
      [] raw.j = "null" -> "Input should be a valid number"
      [] raw.j = "string" ->
           "Input should be a valid number, unable to parse string as a number"

\* C10: the validation message holds one "<field>: <problem>" entry per
\* reported error, in the reported order, joined by "; ", the field being the
\* last element of the error's location: only a invalid names a and not b,
\* both invalid gives two entries.
C10_MessageJoinsFieldErrors ==
    (~ValidOperands /\ Answered)
        => response.error =
             IF Numeric(request.b) THEN "a: " \o Problem(request.a)
             ELSE IF Numeric(request.a) THEN "b: " \o Problem(request.b)
             ELSE "a: " \o Problem(request.a) \o "; " \o "b: "
                    \o Problem(request.b)

C10_Witness ==
    /\ pc = "done"
    /\ request.a = JsonText
    /\ request.b = Missing
    /\ response.error =
         "a: Input should be a valid number, unable to parse string as a number; b: Field required"

\* ------------------------------------------------ unexpected failures
\* The request's operands are valid and the unexpected failure has struck it:
\* at the operation call, or later in the try block, which is reached when
\* the operation returned.
Struck ==
    /\ fault # NoFault
    /\ ValidOperands
    /\ \/ fault.at = "operation"
       \/ ~Raised(Expected(request.endpoint, OperandA, OperandB))

\* C11: for each of the four operations, an unexpected failure inside the
\* route's try block is answered with the server-error status 500.
C11_UnexpectedIs500 ==
    (Answered /\ Struck) => response.status_code = 500

\* C12: for each of the four operations, the error text returned for an
\* unexpected failure is a fixed generic text: the text of the exception
\* never appears in the response body.
C12_NoExceptionText ==
    (Answered /\ Struck)
        => /\ response.error # FaultText
           /\ response.error = "Internal Server Error"

\* C13: every response of the operation endpoints carries exactly one of the
\* keys "result" and "error": "result" exactly when the status is 200, "error"
\* exactly when it is 400 or 500.
C13_ResultXorError ==
    Answered
        => /\ response.keys \in {{"result"}, {"error"}}
           /\ response.keys = {"result"} <=> response.status_code = 200
           /\ response.keys = {"error"} <=> response.status_code \in {400, 500}
           /\ response.keys = {"result"} => response.error = ""
           /\ response.keys = {"error"} => response.result = None

C13_Witness ==
    /\ pc = "done"
    /\ request.endpoint = "divide"
    /\ fault = [at |-> "response", exc |-> "RuntimeError"]
    /\ response.status_code = 500
    /\ response.keys = {"error"}

\* The route of the request has run.
Routed == (pc = "handle" /\ exception.kind = "http") \/ Answered

\* C15: a request with valid operands invokes exactly one operation function,
\* the one of its endpoint, exactly once, with the validated operands as
\* (a, b); nothing is called before the route runs or a second time on failure.
C15_OneCallOfOwnOperation ==
    /\ (ValidOperands /\ Routed)
         => calls = <<[fn |-> request.endpoint, a |-> OperandA, b |-> OperandB]>>
    /\ pc \in {"idle", "validate", "route"} => calls = <<>>

C15_Witness ==
    /\ pc = "done"
    /\ request.endpoint = "divide"
    /\ request.a = JsonNum(IntVal(1))
    /\ request.b = JsonNum(FloatVal(-1, 0))
    /\ response.status_code = 400
    /\ Len(calls) = 1

\* C16: the result of every successful request is a float, also when both
\* operands were sent as ints: the operands reach the route as floats.
C16_ResultIsFloat ==
    /\ (Answered /\ response.status_code = 200) => response.result.t = "float"
    /\ pc = "route" => operation.a.t = "float" /\ operation.b.t = "float"

C16_Witness ==
    /\ pc = "done"
    /\ request.endpoint = "add"
    /\ request.a = JsonNum(IntVal(1))
    /\ request.b = JsonNum(IntVal(1))
    /\ response = ResultResponse(FloatVal(1, 2 * Scale))

\* ------------------------------------------------ requests side by side
\* The response the application gives to a request that is handled alone: a
\* function of the endpoint and the two body fields.
ResponseTo(endpoint, a, b) ==
    IF ValidationErrors([endpoint |-> endpoint, a |-> a, b |-> b,
                         client |-> "", agent |-> ""]) # <<>>
    THEN validation_exception_handler(Path(endpoint),
             RequestValidationError(
                 ValidationErrors([endpoint |-> endpoint, a |-> a, b |-> b,
                                   client |-> "", agent |-> ""]))).response
    ELSE IF Route(endpoint,
                  OperationRequest([endpoint |-> endpoint, a |-> a, b |-> b,
                                    client |-> "", agent |-> ""])).exception
              = NoException
    THEN Route(endpoint,
               OperationRequest([endpoint |-> endpoint, a |-> a, b |-> b,
                                 client |-> "", agent |-> ""])).response
    ELSE http_exception_handler(Path(endpoint),
             Route(endpoint,
                   OperationRequest([endpoint |-> endpoint, a |-> a, b |-> b,
                                     client |-> "", agent |-> ""])).exception
             ).response

WorkerAnswered(w) == workers[w].pc \in {"respond", "done"}

\* C14: the response to a request is the one its endpoint and its operand pair
\* determine, whatever other requests were handled before it and however their
\* steps are interleaved with its own; two requests with the same endpoint and
\* body get the same response.
C14_RequestsIndependent ==
    /\ \A w \in Workers :
         WorkerAnswered(w)
           => workers[w].response
                = ResponseTo(workers[w].request.endpoint, workers[w].request.a,
                             workers[w].request.b)
    /\ \A v \in Workers, w \in Workers :
         (/\ WorkerAnswered(v)
          /\ WorkerAnswered(w)
          /\ workers[v].request = workers[w].request)
           => workers[v].response = workers[w].response

\* Both requests had arrived before either was validated; one divides one by
\* one, the other adds zero and zero; both are answered.
C14_Witness ==
    /\ workers["w1"].pc = "done"
    /\ workers["w2"].pc = "done"
    /\ workers["w1"].request.endpoint = "divide"
    /\ workers["w1"].request.a = JsonNum(IntVal(1))
    /\ workers["w1"].request.b = JsonNum(IntVal(1))
    /\ workers["w2"].request.endpoint = "add"
    /\ workers["w2"].request.a = JsonNum(IntVal(0))
    /\ workers["w2"].request.b = JsonNum(IntVal(0))
    /\ log[1].msg = "Request received: POST /divide"
    /\ log[2].msg = "Request received: POST /add"
    /\ workers["w1"].response = ResultResponse(FloatVal(1, Scale))
    /\ workers["w2"].response = ResultResponse(FloatVal(1, 0))

\* ------------------------------------------------ properties of logging
\* C17: setup_development_logging leaves the root logger at DEBUG,
\* setup_production_logging at INFO and setup_test_logging at WARNING, whatever
\* its level was before, and each returns the root logger.
C17_EnvironmentLevels ==
    /\ call.fn = "setup_development_logging"
         => levels["root"] = "DEBUG" /\ call.out = Return(RootLogger)
    /\ call.fn = "setup_production_logging"
         => levels["root"] = "INFO" /\ call.out = Return(RootLogger)
    /\ call.fn = "setup_test_logging"
         => levels["root"] = "WARNING" /\ call.out = Return(RootLogger)

C17_Witness ==
    /\ call.fn = "setup_test_logging"
    /\ call.was = "DEBUG"
    /\ levels["root"] = "WARNING"
    /\ LogsAppLog \in files

\* C18: setup_logging with log_file=None installs the console handler only;
\* with a path it installs the console handler, a file handler on the path and
\* an error file handler on the path with '.log' replaced by '_error.log', and
\* both files exist after the call; once it has run, a message logged at INFO
\* appears on the console.
C18_SetupLoggingVariants ==
    /\ (call.fn = "setup_logging" /\ call.args.log_file = None)
         => /\ call.out = Return(RootLogger)
            /\ handlers = <<console_handler(call.args.enable_colors)>>
    /\ (call.fn = "setup_logging" /\ Truthy(call.args.log_file))
         => /\ call.out = Return(RootLogger)
            /\ handlers
                 = <<console_handler(call.args.enable_colors),
                     RotatingFileHandler(call.args.log_file, "DEBUG"),
                     RotatingFileHandler(replace_log(call.args.log_file),
                                         "ERROR")>>
            /\ {call.args.log_file, replace_log(call.args.log_file)}
                 \subseteq files
    /\ (call.fn = "Logger.log" /\ call.args.level = "INFO" /\ handlers # <<>>)
         => \E i \in DOMAIN written :
              /\ written[i].kind = "stream"
              /\ written[i].line
                   = Handler_format(Head(handlers),
                      makeRecord(LogRecord(call.args.name, "INFO", "message",
                                           <<>>, NoExtra)))

\* The colour the claim gives each level name.
Colour(levelname) ==
    CASE levelname = "DEBUG" -> "\\033[36m"
      [] levelname = "INFO" -> "\\033[32m"
      [] levelname = "WARNING" -> "\\033[33m"
      [] levelname = "ERROR" -> "\\033[31m"
      [] levelname = "CRITICAL" -> "\\033[35m"

\* C19: ColoredFormatter.format renders each of the five level names as its
\* colour code, the name and the reset code, with the message unchanged; a
\* record with any other level name is rendered as the plain formatter does.
C19_ColoredLevelNames ==
    call.fn = "ColoredFormatter.format"
      => IF call.args.record.levelname \in LevelNames
         THEN call.out
                = Return(Formatter_format(call.args.fmt,
                      [call.args.record EXCEPT
                          !.levelname = Colour(@) \o @ \o "\\033[0m"]))
         ELSE call.out
                = Return(Formatter_format(call.args.fmt, call.args.record))

\* The record has the fields named, with the values given.
HasFields(rec, fields) ==
    \A key \in DOMAIN fields :
        key \in DOMAIN rec.extra /\ rec.extra[key] = fields[key]

\* C20: each StructuredLogger method makes exactly one record on the wrapped
\* logger and returns: log_operation at INFO, log_error at ERROR with the
\* caller's context among the fields, log_request at INFO, each with its
\* message and its fields.
C20_OneRecordPerMethod ==
    /\ call.fn \in {"log_operation", "log_error", "log_request"}
         => /\ Len(emitted) = 1
            /\ emitted[1].logger = call.args.logger
            /\ ~Raised(call.out)
    /\ call.fn = "log_operation"
         => /\ emitted[1].level = "INFO"
            /\ emitted[1].msg = "Operation completed: add"
            /\ HasFields(emitted[1],
                   [operation |-> "add", operand_a |-> IntVal(1),
                    operand_b |-> IntVal(1), result |-> IntVal(2),
                    timestamp |-> Timestamp])
    /\ call.fn = "log_error"
         => /\ emitted[1].level = "ERROR"
            /\ emitted[1].msg = "Operation failed: divide - " \o DIV_ZERO_MSG
            /\ {"operation", "error", "timestamp"} \subseteq DOMAIN emitted[1].extra
            /\ call.args.context # None => HasFields(emitted[1], call.args.context)
    /\ call.fn = "log_request"
         => /\ emitted[1].level = "INFO"
            /\ emitted[1].msg = "Request received: GET /calc"
            /\ HasFields(emitted[1],
                   [method |-> "GET", path |-> "/calc", client_ip |-> "127.0.0.1",
                    timestamp |-> Timestamp])

\* ------------------------------------------------ properties of the whole site
\* C21: every HTTPException a route raises is answered with the exception's
\* status code and the body {"error": <its detail>}; a homepage whose
\* template fails to render is answered with 500 and "Internal server error".
C21_HTTPExceptionAnswer ==
    /\ [][(pc = "handle" /\ exception.kind = "http" /\ pc' = "respond")
            => response' = ErrorJSONResponse(exception.status_code,
                                             exception.detail)]_vars
    /\ []((Answered /\ request.endpoint = "home" /\ fault = TemplateFault)
            => response = ErrorJSONResponse(500, "Internal server error"))

C21_Witness ==
    /\ pc = "done"
    /\ request.endpoint = "home"
    /\ fault = TemplateFault
    /\ response = ErrorJSONResponse(500, "Internal server error")
    /\ log[Len(log) - 1].msg = "HTTPException on /: Internal server error"

\* The closing record of the middleware for the request and its response.
Completed ==
    RootRecord("INFO",
        "Request completed: " \o Method(request.endpoint) \o " "
          \o Path(request.endpoint)
          \o " - Status: {status_code} - Time: {process_time}ms",
        <<response.status_code>>)

IsCompleted(rec) ==
    rec.msg = "Request completed: " \o Method(request.endpoint) \o " "
                \o Path(request.endpoint)
                \o " - Status: {status_code} - Time: {process_time}ms"

\* C22: the middleware emits the "Request received" record before validation
\* and the route run, the "Request completed" record after the response exists,
\* and hands the response on unchanged, for successes and errors alike.
C22_MiddlewareBrackets ==
    /\ [](pc # "idle"
            => log[1] = log_request(Method(request.endpoint),
                                    Path(request.endpoint),
                                    ClientIp(request.client),
                                    UserAgent(request.agent)))
    /\ [](pc \in {"validate", "route"} => Len(log) = 1)
    /\ [](pc \in {"validate", "route", "handle", "respond"}
            => \A i \in DOMAIN log : ~IsCompleted(log[i]))
    /\ [](pc = "done"
            => /\ log[Len(log)] = Completed
               /\ \A i \in 1..(Len(log) - 1) : ~IsCompleted(log[i]))
    /\ [][pc' = "done" => pc \in {"respond", "done"} /\ response' = response]_vars

C22_Witness ==
    /\ pc = "done"
    /\ request.endpoint = "divide"
    /\ response.status_code = 400
    /\ response.error = DIV_ZERO_MSG
    /\ log[1].msg = "Request received: POST /divide"
    /\ log[Len(log)] = Completed
    /\ Len(log) >= 4

\* The places in the log of the records of log_operation and of log_error.
OperationRecords == {i \in DOMAIN log : "result" \in DOMAIN log[i].extra}

ErrorRecords == {i \in DOMAIN log : "error" \in DOMAIN log[i].extra}

\* What the operation function of the endpoint does on the operands.
Operated ==
    CASE request.endpoint = "add" -> add(OperandA, OperandB)
      [] request.endpoint = "subtract" -> subtract(OperandA, OperandB)
      [] request.endpoint = "multiply" -> multiply(OperandA, OperandB)
      [] request.endpoint = "divide" -> divide(OperandA, OperandB)

ValidatorMessage == "Value error, Both a and b must be numbers."

ConsoleLines == {i \in DOMAIN written : written[i].kind = "stream"}

\* The root logger never has more than one console handler or more than three
\* handlers, and no call writes twice to the console, whatever calls were made
\* and however they ended.
HandlersNeverAccumulate ==
    /\ Cardinality({i \in DOMAIN handlers : handlers[i].kind = "stream"}) <= 1
    /\ Len(handlers) <= 3
    /\ Cardinality(ConsoleLines) <= 1

\* C25: after a setup_logging call the root logger has exactly the handlers of
\* that call (the console handler for log_file=None, otherwise console, file
\* and error file handler in that order) and the level of that call; handlers
\* do not accumulate and no message is written to the console twice.
C25_LastSetupWins ==
    /\ call.fn = "setup_logging"
         => /\ levels["root"] = call.args.log_level
            /\ handlers
                 = IF call.args.log_file = None
                   THEN <<console_handler(call.args.enable_colors)>>
                   ELSE <<console_handler(call.args.enable_colors),
                          RotatingFileHandler(call.args.log_file, "DEBUG"),
                          RotatingFileHandler(replace_log(call.args.log_file),
                                              "ERROR")>>
    /\ HandlersNeverAccumulate

\* The last call logged on the root logger at this level.
RootLogged(levelname) ==
    /\ call.fn = "Logger.log"
    /\ call.args.name = RootLogger
    /\ call.args.level = levelname

\* Where a sequence of handlers, or of written lines, leads.
Targets(seq) == [i \in DOMAIN seq |-> <<seq[i].kind, seq[i].target>>]

\* C26: a record logged on the root logger reaches a handler exactly when its
\* level is at least the root logger's and at least the handler's; the console
\* handler takes INFO and above, the file handler DEBUG and above, the error
\* file handler ERROR and above; with the root at WARNING an INFO record
\* reaches no handler.
C26_RecordReachesHandler ==
    /\ \A i \in DOMAIN handlers :
         handlers[i].level = CASE i = 1 -> "INFO" [] i = 2 -> "DEBUG"
                               [] OTHER -> "ERROR"
    /\ \A levelname \in LevelNames \cup CustomLevelNames :
         RootLogged(levelname)
           => LET Reaches(h) ==
                      /\ levelno(levelname) >= levelno(levels[RootLogger])
                      /\ levelno(levelname) >= levelno(h.level)
              IN  Targets(written) = Targets(SelectSeq(handlers, Reaches))
    /\ RootLogged("DEBUG") => ConsoleLines = {}
    /\ (RootLogged("INFO") /\ levels[RootLogger] = "WARNING") => written = <<>>

C26_Witness ==
    /\ RootLogged("DEBUG")
    /\ levels[RootLogger] = "DEBUG"
    /\ Len(handlers) = 3
    /\ Len(written) = 1
    /\ written[1].kind = "file"
    /\ written[1].target = LogsAppLog

\* ---- properties of formatting twice

\* The last call formatted a record that a ColoredFormatter had formatted.
FormattedAgain ==
    call.fn = "ColoredFormatter.format" /\ call.args.before # "none"

\* The record of the last format call as it was made, before any formatting.
FreshRecord ==
    makeRecord(LogRecord("test", call.args.levelname, "message", <<>>, NoExtra))

\* C27: formatting a record a second time, with the same or another
\* ColoredFormatter, does not wrap the level name again: the text is the one a
\* first formatting gives, with the colour code and the reset code once.
C27_FormatIdempotent ==
    FormattedAgain
      => /\ call.out = Return(ColoredFormatter_format(call.args.fmt, FreshRecord))
         /\ call.out = Return(Formatter_format(call.args.fmt, call.args.record))
         /\ ColoredFormatter_record(call.args.record) = call.args.record
         /\ call.args.levelname \in LevelNames
              => call.args.record.levelname
                   = Colour(call.args.levelname) \o call.args.levelname
                       \o "\\033[0m"

C27_Witness ==
    /\ FormattedAgain
    /\ call.args.before = "console"
    /\ call.args.fmt = "short"
    /\ call.args.levelname = "ERROR"
    /\ call.out = Return("\\033[31mERROR\\033[0m: message")

\* ---- properties of the record the handlers share

\* The last call logged a record while the console handler coloured its output
\* and a log file was configured.
LoggedInColour ==
    /\ call.fn = "Logger.log"
    /\ Len(handlers) >= 2
    /\ handlers[1].formatter = "colored"

\* The lines the last call wrote to files.
FileLines == {i \in DOMAIN written : written[i].kind = "file"}

\* The line of the file format for the logged record under this level name.
FileLine(levelname) ==
    Formatter_format("file",
        [makeRecord(emitted[1]) EXCEPT !.levelname = levelname])

\* A DEBUG record passes the console handler by and is written to the file
\* with the plain level name.
DebugIsPlain ==
    (LoggedInColour /\ call.args.level = "DEBUG")
      => /\ ConsoleLines = {}
         /\ \A i \in FileLines : written[i].line = FileLine("DEBUG")
         /\ isEnabledFor(levels, call.args.name, "DEBUG") => FileLines # {}

\* C28 as stated: every record at INFO or above is written to the files with
\* a level name that is wrapped, not the plain one; a DEBUG record with the
\* plain one.
C28_EveryRecordWrapped ==
    /\ (LoggedInColour /\ levelno(call.args.level) >= levelno("INFO"))
         => \A i \in FileLines : written[i].line # FileLine(call.args.level)
    /\ DebugIsPlain

\* C28, amended: a record whose level name is INFO, WARNING, ERROR or CRITICAL
\* is written to the file, and at ERROR and above to the error file, with the
\* level name the console formatter left: colour code, name, reset code; a
\* DEBUG record is written to the file with the plain level name.
C28_NamedRecordWrapped ==
    /\ (LoggedInColour /\ call.args.level \in LevelNames \ {"DEBUG"})
         => /\ \A i \in FileLines :
                 written[i].line
                   = FileLine(Colour(call.args.level) \o call.args.level
                                \o "\\033[0m")
            /\ isEnabledFor(levels, call.args.name, call.args.level)
                 => Cardinality(FileLines)
                      = Cardinality({i \in DOMAIN handlers :
                            /\ handlers[i].kind = "file"
                            /\ levelno(call.args.level)
                                 >= levelno(handlers[i].level)})
    /\ DebugIsPlain

C28_Witness ==
    /\ LoggedInColour
    /\ call.args.name = RootLogger
    /\ call.args.level = "ERROR"
    /\ Len(handlers) = 3
    /\ Len(written) = 3
    /\ written[3].target = replace_log(LogsAppLog)
    /\ written[3].line
         = "asctime - root - \\033[31mERROR\\033[0m - funcName:lineno - message"

\* ---- properties of the optional fields

\* The fields of the record the last call made.
Extra == emitted[1].extra

\* The fields log_error sets itself.
ErrorFields ==
    [operation |-> "divide", error |-> DIV_ZERO_MSG, timestamp |-> Timestamp]

\* C29: log_operation records duration_ms exactly when it is not None, a
\* duration of 0 included; log_request records user_agent exactly when it is
\* neither None nor empty; log_error lays the caller's context over its own
\* fields, so a context key operation, error or timestamp replaces the value.
C29_OptionalFields ==
    /\ call.fn = "log_operation"
         => /\ "duration_ms" \in DOMAIN Extra <=> call.args.duration_ms # None
            /\ "duration_ms" \in DOMAIN Extra
                 => Extra.duration_ms = call.args.duration_ms
    /\ call.fn = "log_request"
         => /\ "user_agent" \in DOMAIN Extra
                 <=> call.args.user_agent \notin {NoneStr, ""}
            /\ "user_agent" \in DOMAIN Extra
                 => Extra.user_agent = call.args.user_agent
    /\ call.fn = "log_error"
         => LET context == IF call.args.context = None THEN EmptyDict
                           ELSE call.args.context
            IN  /\ DOMAIN Extra = DOMAIN ErrorFields \cup DOMAIN context
                /\ \A key \in DOMAIN context : Extra[key] = context[key]
                /\ \A key \in DOMAIN ErrorFields \ DOMAIN context :
                     Extra[key] = ErrorFields[key]

C29_Witness ==
    /\ call.fn = "log_operation"
    /\ call.args.duration_ms = IntVal(0)
    /\ Extra.duration_ms = IntVal(0)
    /\ Extra.result = IntVal(2)

\* ------------------------------------------------ properties of the fixture
\* The fixture has yielded to the tests.
Yielded == fixture \in {"yielded", "wait", "finished"}

====
